---- MODULE Spec2Model ----
(***************************************************************************)
(* go-makefile-gen, package mfile: GenerateMakefile and the four           *)
(* AddTarget...ToMakefile functions, over a small POSIX-like file system.   *)
(*                                                                         *)
(* Strings are sequences of one-character strings, so that concatenation,  *)
(* strings.Contains, strings.Join and the escaping done by html/template   *)
(* are computed character by character.  A path is the sequence of its     *)
(* "/"-separated components: "proj//./Makefile" is                          *)
(* <<"proj", "", ".", "Makefile">>, "/" is <<"", "">>, "" is <<"">>.        *)
(***************************************************************************)
EXTENDS Naturals, Sequences, FiniteSets, TLC

VARIABLES
    fs,      \* the file system: cleaned path -> node
    pre,     \* the file system as it was before the last call
    last,    \* the last call: its arguments, resolved path, I/O trace, error
    calls,   \* number of calls made so far
    templateProcessorProvider,
             \* the package variable of that name: which template processor
    hist,    \* the successful calls since the start, where history is kept
    gen,     \* a GenerateMakefile call in progress, step by step
    add,     \* an add-target call in progress, step by step
    handles  \* number of open file handles

vars == <<fs, pre, last, calls, templateProcessorProvider, hist, gen, add, handles>>

----------------------------------------------------------------------------
(* Bounds *)

MaxCalls == 2
MaxRacers == 1
MaxNameLen == 2
MaxContentLen == 2
MaxDeps == 2
MaxPathLen == 3

----------------------------------------------------------------------------
(* Program constants: src/cmd/gomakefile.go, const block at 276-316 *)

makefileName == "Makefile"

generateTemplate ==
    \* .PHONY: help
    << ".", "P", "H", "O", "N", "Y", ":", " ", "h", "e", "l", "p", "\n" >>
    \* ## help: shows this help message
    \o << "#", "#", " ", "h", "e", "l", "p", ":", " ", "s", "h", "o", "w", "s", " ", "t",
          "h", "i", "s", " ", "h", "e", "l", "p", " ", "m", "e", "s", "s", "a", "g", "e",
          "\n" >>
    \* help:
    \o << "h", "e", "l", "p", ":", "\n" >>
    \* <TAB>@ echo "Usage: make [target]\n"
    \o << "\t", "@", " ", "e", "c", "h", "o", " ", "\"", "U", "s", "a", "g", "e", ":", " ",
          "m", "a", "k", "e", " ", "[", "t", "a", "r", "g", "e", "t", "]", "\\", "n", "\"",
          "\n" >>
    \* <TAB>@ sed -n 's/^##//p' ${MAKEFILE_LIST} | column -t -s ':' |  sed -e 's/^/ /'
    \o << "\t", "@", " ", "s", "e", "d", " ", "-", "n", " ", "'", "s", "/", "^", "#", "#",
          "/", "/", "p", "'", " ", "$", "{", "M", "A", "K", "E", "F", "I", "L", "E", "_",
          "L", "I", "S", "T", "}", " ", "|", " ", "c", "o", "l", "u", "m", "n", " ", "-",
          "t", " ", "-", "s", " ", "'", ":", "'", " ", "|", " ", " ", "s", "e", "d", " ",
          "-", "e", " ", "'", "s", "/", "^", "/", " ", "/", "'", "\n" >>
    \* 
    \o << "\n" >>
    \* .PHONY: test
    \o << ".", "P", "H", "O", "N", "Y", ":", " ", "t", "e", "s", "t", "\n" >>
    \* ## test: run unit tests
    \o << "#", "#", " ", "t", "e", "s", "t", ":", " ", "r", "u", "n", " ", "u", "n", "i",
          "t", " ", "t", "e", "s", "t", "s", "\n" >>
    \* test:
    \o << "t", "e", "s", "t", ":", "\n" >>
    \* <TAB>@ go test -v ./... -count=1
    \o << "\t", "@", " ", "g", "o", " ", "t", "e", "s", "t", " ", "-", "v", " ", ".", "/",
          ".", ".", ".", " ", "-", "c", "o", "u", "n", "t", "=", "1", "\n" >>
    \* 
    \o << "\n" >>
    \* .PHONY: coverage
    \o << ".", "P", "H", "O", "N", "Y", ":", " ", "c", "o", "v", "e", "r", "a", "g", "e",
          "\n" >>
    \* ## coverage: run unit tests and generate coverage report in html format
    \o << "#", "#", " ", "c", "o", "v", "e", "r", "a", "g", "e", ":", " ", "r", "u", "n",
          " ", "u", "n", "i", "t", " ", "t", "e", "s", "t", "s", " ", "a", "n", "d", " ",
          "g", "e", "n", "e", "r", "a", "t", "e", " ", "c", "o", "v", "e", "r", "a", "g",
          "e", " ", "r", "e", "p", "o", "r", "t", " ", "i", "n", " ", "h", "t", "m", "l",
          " ", "f", "o", "r", "m", "a", "t", "\n" >>
    \* coverage:
    \o << "c", "o", "v", "e", "r", "a", "g", "e", ":", "\n" >>
    \* <TAB>@ go test -coverprofile=coverage.out ./...  && go tool cover -html=coverage.out
    \o << "\t", "@", " ", "g", "o", " ", "t", "e", "s", "t", " ", "-", "c", "o", "v", "e",
          "r", "p", "r", "o", "f", "i", "l", "e", "=", "c", "o", "v", "e", "r", "a", "g",
          "e", ".", "o", "u", "t", " ", ".", "/", ".", ".", ".", " ", " ", "&", "&", " ",
          "g", "o", " ", "t", "o", "o", "l", " ", "c", "o", "v", "e", "r", " ", "-", "h",
          "t", "m", "l", "=", "c", "o", "v", "e", "r", "a", "g", "e", ".", "o", "u", "t",
          "\n" >>

(* A parsed template is the sequence of its nodes: literal text, or an     *)
(* action {{ .Field }}.                                                     *)
Text(s) == [text |-> s, field |-> ""]
Field(n) == [text |-> <<>>, field |-> n]

addTargetTemplate ==
    << Text(<< "\n", ".", "P", "H", "O", "N", "Y", ":", " " >>),
       Field("TargetName"),
       Text(<< "\n", "#", "#", " " >>),
       Field("TargetName"),
       Text(<< ":", " ", "e", "x", "p", "l", "a", "i", "n", " ", "w", "h", "a", "t", " " >>),
       Field("TargetName"),
       Text(<< " ", "d", "o", "e", "s", "\n" >>),
       Field("TargetName"),
       Text(<< ":", "\n" >>) >>

addTargetWithDependenciesTemplate ==
    << Text(<< "\n", ".", "P", "H", "O", "N", "Y", ":", " " >>),
       Field("TargetName"),
       Text(<< "\n", "#", "#", " " >>),
       Field("TargetName"),
       Text(<< ":", " ", "e", "x", "p", "l", "a", "i", "n", " ", "w", "h", "a", "t", " " >>),
       Field("TargetName"),
       Text(<< " ", "d", "o", "e", "s", "\n" >>),
       Field("TargetName"),
       Text(<< ":", " " >>),
       Field("TargetDependencies"),
       Text(<< "\n" >>) >>

addTargetWithContentAndDependenciesTemplate ==
    << Text(<< "\n", ".", "P", "H", "O", "N", "Y", ":", " " >>),
       Field("TargetName"),
       Text(<< "\n", "#", "#", " " >>),
       Field("TargetName"),
       Text(<< ":", " ", "e", "x", "p", "l", "a", "i", "n", " ", "w", "h", "a", "t", " " >>),
       Field("TargetName"),
       Text(<< " ", "d", "o", "e", "s", "\n" >>),
       Field("TargetName"),
       Text(<< ":", " " >>),
       Field("TargetDependencies"),
       Text(<< "\n", "\t" >>),
       Field("TargetContent"),
       Text(<< "\n" >>) >>

addTargetWithContentTemplate ==
    << Text(<< "\n", ".", "P", "H", "O", "N", "Y", ":", " " >>),
       Field("TargetName"),
       Text(<< "\n", "#", "#", " " >>),
       Field("TargetName"),
       Text(<< ":", " ", "e", "x", "p", "l", "a", "i", "n", " ", "w", "h", "a", "t", " " >>),
       Field("TargetName"),
       Text(<< " ", "d", "o", "e", "s", "\n" >>),
       Field("TargetName"),
       Text(<< ":", "\n", "\t" >>),
       Field("TargetContent"),
       Text(<< "\n" >>) >>

----------------------------------------------------------------------------
(* Strings *)

\* Mutant: only a leading space is looked for.
containsSpaceAtStart(s) == s # <<>> /\ s[1] = " "

\* strings.Contains(s, " ")
containsSpace(s) == \E i \in 1..Len(s) : s[i] = " "

\* strings.Join(elems, " ")
RECURSIVE JoinSpace(_)
JoinSpace(elems) ==
    IF elems = <<>> THEN <<>>
    ELSE IF Len(elems) = 1 THEN elems[1]
    ELSE elems[1] \o << " " >> \o JoinSpace(Tail(elems))

\* html/template's replacement table for a value printed in text context:
\* the characters " & ' + < > are replaced by character references, every
\* other character is copied.  (The table also maps NUL to U+FFFD; NUL is not
\* among the characters of this model.)
htmlReplacement(c) ==
    CASE c = "\"" -> << "&", "#", "3", "4", ";" >>
      [] c = "&"  -> << "&", "a", "m", "p", ";" >>
      [] c = "'"  -> << "&", "#", "3", "9", ";" >>
      [] c = "+"  -> << "&", "#", "4", "3", ";" >>
      [] c = "<"  -> << "&", "l", "t", ";" >>
      [] c = ">"  -> << "&", "g", "t", ";" >>
      [] OTHER    -> << c >>

RECURSIVE htmlEscaper(_)
htmlEscaper(s) ==
    IF s = <<>> THEN <<>>
    ELSE htmlReplacement(Head(s)) \o htmlEscaper(Tail(s))

\* htmlTemplateExecutor.Execute: the text the template writes for `data`.
\* Literal text is copied; each {{ .Field }} prints data[Field] through the
\* escaper html/template inserts for text context.
RECURSIVE Execute(_, _)
Execute(tmpl, data) ==
    IF tmpl = <<>> THEN <<>>
    ELSE LET n == Head(tmpl) IN
         (IF n.field = "" THEN n.text ELSE htmlEscaper(data[n.field]))
             \o Execute(Tail(tmpl), data)

----------------------------------------------------------------------------
(* Paths *)

\* A path string starts with "/".
isRooted(path) == Len(path) >= 2 /\ path[1] = ""

\* The component loop of filepath.Clean: empty and "." components are
\* skipped, ".." removes the last kept component when there is one that is
\* not itself "..", is dropped at the root, and is kept otherwise.
RECURSIVE cleanFrom(_, _, _, _)
cleanFrom(path, i, out, rooted) ==
    IF i > Len(path) THEN out
    ELSE LET c == path[i] IN
         IF c = "" \/ c = "." THEN cleanFrom(path, i + 1, out, rooted)
         ELSE IF c = ".." THEN
             IF out # <<>> /\ out[Len(out)] # ".."
             THEN cleanFrom(path, i + 1, SubSeq(out, 1, Len(out) - 1), rooted)
             ELSE IF rooted THEN cleanFrom(path, i + 1, out, rooted)
             ELSE cleanFrom(path, i + 1, Append(out, ".."), rooted)
         ELSE cleanFrom(path, i + 1, Append(out, c), rooted)

\* filepath.Clean
Clean(path) ==
    LET rooted == isRooted(path)
        out == cleanFrom(path, 1, <<>>, rooted)
    IN  IF rooted THEN << "" >> \o (IF out = <<>> THEN << "" >> ELSE out)
        ELSE IF out = <<>> THEN << "." >> ELSE out

\* filepath.Join(dir, name) for non-empty elements: Clean(dir + "/" + name)
Join(dir, name) == Clean(Append(dir, name))

----------------------------------------------------------------------------
(* The file system behind osFileSystem (src/mfile/fs.go)                    *)

Absent == [kind |-> "absent", data |-> <<>>, mode |-> "-"]
Dir(mode) == [kind |-> "dir", data |-> <<>>, mode |-> mode]
File(data, mode) == [kind |-> "file", data |-> data, mode |-> mode]

\* The entries the model tracks: the working directory ".", and the entries
\* named proj and Makefile in it and in its subdirectories.
EntryNames == {"proj", makefileName}
Locs == {<< "." >>} \cup {<< a >> : a \in EntryNames}
            \cup {<< a, b >> : a, b \in EntryNames}

\* The node a cleaned path names.  The root and the ancestors of the working
\* directory exist, are directories, and are not writable by the caller;
\* every other path outside Locs names nothing.
NodeAt(f, p) ==
    IF p \in DOMAIN f THEN f[p]
    ELSE IF p = << "", "" >> THEN Dir("r")
    ELSE IF p # <<>> /\ \A i \in 1..Len(p) : p[i] = ".." THEN Dir("r")
    ELSE Absent

\* The directory holding the entry a cleaned path names.
Parent(p) ==
    IF p = << "", "" >> THEN p
    ELSE IF p = << "." >> THEN << ".." >>
    ELSE IF \A i \in 1..Len(p) : p[i] = ".." THEN Append(p, "..")
    ELSE IF Len(p) = 1 THEN << "." >>
    ELSE IF Len(p) = 2 /\ p[1] = "" THEN << "", "" >>
    ELSE SubSeq(p, 1, Len(p) - 1)

\* The errno of looking a path up: ENOENT at the first missing component,
\* ENOTDIR when a component that is not the last is not a directory.
RECURSIVE lookupErr(_, _)
lookupErr(f, p) ==
    IF NodeAt(f, p).kind # "absent" THEN "nil"
    ELSE LET up == NodeAt(f, Parent(p)).kind IN
         IF up = "dir" THEN "ENOENT"
         ELSE IF up = "file" THEN "ENOTDIR"
         ELSE lookupErr(f, Parent(p))

\* osFileSystem.Stat = os.Stat
Stat(f, name) ==
    [err |-> lookupErr(f, name), isDir |-> NodeAt(f, name).kind = "dir"]

\* Mutant: no error counts as not-found.
IsNotExistNever(err) == FALSE

\* Variant: every error counts as not-found.
IsNotExistAlways(err) == TRUE

\* osFileSystem.IsNotExist = os.IsNotExist: true of ENOENT only.
IsNotExist(err) == err = "ENOENT"

\* osFileSystem.OpenFile = os.OpenFile for writing (flag holds O_WRONLY).
\* An existing directory cannot be opened for writing, an existing file
\* needs write permission and is emptied by O_TRUNC; a missing entry is
\* created, empty and with mode 0644, only under O_CREATE and in a writable
\* directory.
OpenFile(f, name, flag) ==
    LET node == NodeAt(f, name)
        e == lookupErr(f, name)
    IN  IF node.kind = "dir" THEN [err |-> "EISDIR", fs |-> f]
        ELSE IF node.kind = "file" THEN
            IF node.mode = "r" THEN [err |-> "EACCES", fs |-> f]
            ELSE IF "O_TRUNC" \in flag
                 THEN [err |-> "nil", fs |-> [f EXCEPT ![name].data = <<>>]]
                 ELSE [err |-> "nil", fs |-> f]
        ELSE IF NodeAt(f, Parent(name)).kind # "dir" \/ "O_CREATE" \notin flag
             THEN [err |-> e, fs |-> f]
        ELSE IF NodeAt(f, Parent(name)).mode = "rw" /\ name \in DOMAIN f
             THEN [err |-> "nil", fs |-> [f EXCEPT ![name] = File(<<>>, "rw")]]
        ELSE [err |-> "EACCES", fs |-> f]

\* (*os.File).Write on a handle opened without O_APPEND whose offset is off:
\* the bytes replace what the file holds from there on, and extend it.
WriteAt(f, name, off, data) ==
    [f EXCEPT ![name].data = SubSeq(@, 1, off) \o data
                                 \o SubSeq(@, off + Len(data) + 1, Len(@))]

\* Variant: the bytes land at the start of the file.
WriteAtStart(f, name, data) == [f EXCEPT ![name].data = data \o @]

\* (*os.File).Write on a handle opened by OpenFile: under O_APPEND, and on a
\* file just emptied, the bytes land at the end of the file.
Write(f, name, data) == [f EXCEPT ![name].data = @ \o data]

\* osFileSystem.ReadFile = os.ReadFile
ReadFile(f, name) ==
    LET node == NodeAt(f, name) IN
    IF node.kind = "absent" THEN [err |-> lookupErr(f, name), data |-> <<>>]
    ELSE IF node.kind = "dir" THEN [err |-> "EISDIR", data |-> <<>>]
    ELSE IF node.mode = "w" THEN [err |-> "EACCES", data |-> <<>>]
    ELSE [err |-> "nil", data |-> node.data]

\* Mutant: the file is opened without O_TRUNC, so the new bytes follow the old.
WriteFileWithoutTruncate(f, name, data) ==
    LET o == OpenFile(f, name, {"O_WRONLY", "O_CREATE"}) IN
    IF o.err # "nil" THEN [err |-> o.err, fs |-> f]
    ELSE [err |-> "nil", fs |-> Write(o.fs, name, data)]

\* osFileSystem.WriteFile = os.WriteFile: open with
\* O_WRONLY|O_CREATE|O_TRUNC, write, close.
WriteFile(f, name, data) ==
    LET o == OpenFile(f, name, {"O_WRONLY", "O_CREATE", "O_TRUNC"}) IN
    IF o.err # "nil" THEN [err |-> o.err, fs |-> f]
    ELSE [err |-> "nil", fs |-> Write(o.fs, name, data)]

----------------------------------------------------------------------------
(* Package mfile (src/cmd/gomakefile.go, 253-465)                           *)

\* errors.New / errors.Wrapf: the message, the path it names, the cause.
NoError == [msg |-> "", path |-> <<>>, cause |-> "nil"]
NewError(msg) == [msg |-> msg, path |-> <<>>, cause |-> "nil"]
Wrapf(cause, msg, path) == [msg |-> msg, path |-> path, cause |-> cause]

\* Mutant: Makefile is appended without looking at what Stat reports.
mkFilePathAlwaysJoin(f, path) == Join(Clean(path), makefileName)

\* mkFilePath: the cleaned path, or Makefile in it when Stat succeeds and
\* reports a directory.
mkFilePath(f, path) ==
    LET cleaned == Clean(path)
        st == Stat(f, cleaned)
    IN  IF st.err = "nil" /\ st.isDir THEN Join(cleaned, makefileName)
        ELSE cleaned

\* Mutant: the Makefile is opened with O_CREATE as well.
appendFlagsCreate == {"O_APPEND", "O_WRONLY", "O_CREATE"}

\* The flags the add-target functions open the Makefile with.
appendFlags == {"O_APPEND", "O_WRONLY"}

\* Mutant: the existing content is put before the boilerplate.
generateContentAppended(overwrite, existingContent) ==
    IF overwrite THEN generateTemplate
    ELSE existingContent \o generateTemplate

\* Variant: content that already starts with the boilerplate is kept as is.
generateContentOnce(overwrite, existingContent) ==
    IF overwrite THEN generateTemplate
    ELSE IF /\ Len(existingContent) >= Len(generateTemplate)
            /\ SubSeq(existingContent, 1, Len(generateTemplate)) = generateTemplate
         THEN existingContent
    ELSE generateTemplate \o existingContent

\* GenerateMakefile, lines 322-329: the content to write.
generateContent(overwrite, existingContent) ==
    IF overwrite THEN generateTemplate
    ELSE generateTemplate \o existingContent

\* What a call hands back to the action that made it: the file system it
\* leaves, its error, the path it resolved, the file system calls it made.
Outcome(f, err, mk, io) == [fs |-> f, err |-> err, mk |-> mk, io |-> io]

\* The body of GenerateMakefile on file system f.
generate(f, path, overwrite) ==
    LET makeFilePath == mkFilePath(f, path)
        rd == ReadFile(f, makeFilePath)
        existingContent == IF overwrite THEN <<>> ELSE rd.data
        wr == WriteFile(f, makeFilePath, generateContent(overwrite, existingContent))
    IN  IF ~overwrite /\ rd.err # "nil" /\ ~IsNotExist(rd.err)
        THEN Outcome(f, Wrapf(rd.err, "reading Makefile at", makeFilePath),
                     makeFilePath, << "Stat", "ReadFile" >>)
        ELSE Outcome(wr.fs,
                     IF wr.err # "nil"
                     THEN Wrapf(wr.err, "writing MakeFile at", makeFilePath)
                     ELSE NoError,
                     makeFilePath,
                     IF overwrite THEN << "Stat", "WriteFile" >>
                     ELSE << "Stat", "ReadFile", "WriteFile" >>)

\* The values of templateProcessorProvider: the html/template processor, and
\* the test doubles whose Parse, or whose executor's Execute, returns an error
\* (src/unnamed/part_001, mockTemplateProcessor and mockTemplateExecutor).
Providers == {"htmlTemplateProcessor", "mockParseError", "mockExecuteError"}

\* Variant: Parse never reports an error.
ParseNeverFails(provider, text) == [err |-> "nil", tmpl |-> text]

\* templateProcessorProvider.Parse: the fixed templates always parse under
\* html/template; the double returns its error.
Parse(provider, text) ==
    [err |-> IF provider = "mockParseError" THEN "parse error" ELSE "nil",
     tmpl |-> text]

\* tmplExecutor.Execute(file, data) on the open Makefile: html/template
\* appends the rendered text; the failing double writes nothing and returns
\* its error.
ExecuteInto(provider, f, name, tmpl, data) ==
    IF provider = "mockExecuteError" THEN [err |-> "execute error", fs |-> f]
    ELSE [err |-> "nil", fs |-> Write(f, name, Execute(tmpl, data))]

\* The part the four add-target functions share once the arguments are
\* validated (lines 343-356, 367-383, 399-415, 431-448): resolve and open the
\* Makefile for appending, parse the template, execute it into the file,
\* close the file.  The open error names the path as the caller gave it.
appendTarget(f, path, tmpl, data) ==
    LET makeFilePath == mkFilePath(f, path)
        o == OpenFile(f, makeFilePath, appendFlags)
    IN  IF o.err # "nil"
        THEN Outcome(f, Wrapf(o.err, "opening", path), makeFilePath,
                     << "Stat", "OpenFile" >>)
        ELSE LET parsed == Parse(templateProcessorProvider, tmpl)
                 ex == ExecuteInto(templateProcessorProvider, o.fs, makeFilePath,
                                   parsed.tmpl, data)
             IN  IF parsed.err # "nil"
                 THEN Outcome(o.fs, Wrapf(parsed.err, "parsing template", <<>>),
                              makeFilePath,
                              << "Stat", "OpenFile", "Parse", "Close" >>)
                 ELSE IF ex.err # "nil"
                 THEN Outcome(ex.fs, Wrapf(ex.err, "executing template", <<>>),
                              makeFilePath,
                              << "Stat", "OpenFile", "Parse", "Execute", "Close" >>)
                 ELSE Outcome(ex.fs, NoError, makeFilePath,
                              << "Stat", "OpenFile", "Parse", "Execute", "Close" >>)

\* A validation failure: returned before any file system call.
Invalid(f, msg) == Outcome(f, NewError(msg), <<>>, <<>>)

\* for _, td := range targetDependencies { if containsSpace(td) ... }
anyDependencyHasSpace(targetDependencies) ==
    \E i \in 1..Len(targetDependencies) : containsSpace(targetDependencies[i])

\* The body of AddTargetToMakefile.
addTarget(f, path, targetName) ==
    IF containsSpace(targetName)
    THEN Invalid(f, "target name cannot contain space")
    ELSE appendTarget(f, path, addTargetTemplate,
                      [TargetName |-> targetName])

\* The body of AddTargetWithContentToMakefile.
addTargetWithContent(f, path, targetName, targetContent) ==
    IF containsSpace(targetName)
    THEN Invalid(f, "target name cannot contain space")
    ELSE appendTarget(f, path, addTargetWithContentTemplate,
                      [TargetName |-> targetName, TargetContent |-> targetContent])

\* The body of AddTargetWithDependenciesToMakefile.
addTargetWithDependencies(f, path, targetName, targetDependencies) ==
    IF containsSpace(targetName)
    THEN Invalid(f, "target name cannot contain space")
    ELSE IF anyDependencyHasSpace(targetDependencies)
    THEN Invalid(f, "target dependency name cannot contain space")
    ELSE appendTarget(f, path, addTargetWithDependenciesTemplate,
                      [TargetName |-> targetName,
                       TargetDependencies |-> JoinSpace(targetDependencies)])

\* The body of AddTargetWithContentAndDependenciesToMakefile.
addTargetWithContentAndDependencies(f, path, targetName, targetContent, targetDependencies) ==
    IF containsSpace(targetName)
    THEN Invalid(f, "target name cannot contain space")
    ELSE IF anyDependencyHasSpace(targetDependencies)
    THEN Invalid(f, "target dependency name cannot contain space")
    ELSE appendTarget(f, path, addTargetWithContentAndDependenciesTemplate,
                      [TargetName |-> targetName,
                       TargetDependencies |-> JoinSpace(targetDependencies),
                       TargetContent |-> targetContent])

----------------------------------------------------------------------------
(* Actions: one per exported function.  Each is the whole call. *)

\* No command line: the call was made through the package API.
NoArgv ==
    [cmd |-> "none", p |-> <<>>, o |-> FALSE, t |-> <<>>, c |-> <<>>, d |-> <<>>]

NoCall ==
    [op |-> "none", path |-> <<>>, overwrite |-> FALSE, name |-> <<>>,
     content |-> <<>>, deps |-> <<>>, mk |-> <<>>, err |-> NoError, io |-> <<>>,
     argv |-> NoArgv]

\* No step-by-step call is in progress.  A call in progress holds its
\* arguments, its position pc, and its local variables: makeFilePath (mk),
\* existingContent, err, the calls made so far (io), and for an add-target
\* call the template node Execute writes next.  Of the texts other calls
\* append to the file of a GenerateMakefile call, `missed` lists those
\* written between the last read of its ReadFile and the open of its WriteFile, `early` those
\* between that open and its write, `late` those after its write.
IdleGen ==
    [pc |-> "idle", path |-> <<>>, overwrite |-> FALSE, mk |-> <<>>,
     existingContent |-> <<>>, err |-> NoError, io |-> <<>>, missed |-> <<>>,
     early |-> <<>>, late |-> <<>>]
IdleAdd ==
    [pc |-> "idle", op |-> "none", path |-> <<>>, name |-> <<>>,
     content |-> <<>>, deps |-> <<>>, mk |-> <<>>, err |-> NoError, io |-> <<>>,
     node |-> 1]

Returned(r, call) ==
    LET done == [call EXCEPT !.mk = r.mk, !.err = r.err, !.io = r.io] IN
    /\ fs' = r.fs
    /\ pre' = fs
    /\ last' = done
    /\ calls' = calls + 1
    /\ hist' = IF hist.on /\ r.err = NoError
               THEN [hist EXCEPT !.calls = Append(@, done)]
               ELSE hist
    /\ UNCHANGED <<templateProcessorProvider, gen, add, handles>>

GenerateMakefile(path, overwrite) ==
    Returned(generate(fs, path, overwrite),
             [NoCall EXCEPT !.op = "GenerateMakefile", !.path = path,
                            !.overwrite = overwrite])

AddTargetToMakefile(path, targetName) ==
    Returned(addTarget(fs, path, targetName),
             [NoCall EXCEPT !.op = "AddTargetToMakefile", !.path = path,
                            !.name = targetName])

AddTargetWithContentToMakefile(path, targetName, targetContent) ==
    Returned(addTargetWithContent(fs, path, targetName, targetContent),
             [NoCall EXCEPT !.op = "AddTargetWithContentToMakefile",
                            !.path = path, !.name = targetName,
                            !.content = targetContent])

AddTargetWithDependenciesToMakefile(path, targetName, targetDependencies) ==
    Returned(addTargetWithDependencies(fs, path, targetName, targetDependencies),
             [NoCall EXCEPT !.op = "AddTargetWithDependenciesToMakefile",
                            !.path = path, !.name = targetName,
                            !.deps = targetDependencies])

AddTargetWithContentAndDependenciesToMakefile(path, targetName, targetContent, targetDependencies) ==
    Returned(addTargetWithContentAndDependencies(fs, path, targetName,
                                                 targetContent, targetDependencies),
             [NoCall EXCEPT !.op = "AddTargetWithContentAndDependenciesToMakefile",
                            !.path = path, !.name = targetName,
                            !.content = targetContent,
                            !.deps = targetDependencies])

----------------------------------------------------------------------------
(* The command-line program.  A command line is a record: cmd is the
   subcommand, p the value of -p ("." when not given), o whether -o is given,
   t the value of -t, c the value of -c (empty when not given), and d the
   values of the -d options in the order given. *)

\* parser.Parse on the options: AddTargetCommand declares t, c and p,
\* GenerateCommand p and o; go-flags rejects any other option.
flagsParse(argv) ==
    IF argv.d # <<>> THEN "unknown flag `d'" ELSE "nil"

\* GenerateCommand.Execute
GenerateCommandExecute(argv) ==
    Returned(generate(fs, argv.p, argv.o),
             [NoCall EXCEPT !.op = "GenerateMakefile", !.path = argv.p,
                            !.overwrite = argv.o, !.argv = argv])

\* AddTargetCommand.Execute
AddTargetCommandExecute(argv) ==
    IF argv.c # <<>>
    THEN Returned(addTargetWithContent(fs, argv.p, argv.t, argv.c),
                  [NoCall EXCEPT !.op = "AddTargetWithContentToMakefile",
                                 !.path = argv.p, !.name = argv.t,
                                 !.content = argv.c, !.argv = argv])
    ELSE Returned(addTarget(fs, argv.p, argv.t),
                  [NoCall EXCEPT !.op = "AddTargetToMakefile", !.path = argv.p,
                                 !.name = argv.t, !.argv = argv])

\* main: the options are parsed, and the subcommand's Execute runs when they
\* parse; an error of either is printed and the exit status is 1.
main(argv) ==
    IF flagsParse(argv) # "nil"
    THEN Returned(Outcome(fs, NewError(flagsParse(argv)), <<>>, <<>>),
                  [NoCall EXCEPT !.op = "flags.Parse", !.argv = argv])
    ELSE IF argv.cmd = "generate" THEN GenerateCommandExecute(argv)
    ELSE AddTargetCommandExecute(argv)

----------------------------------------------------------------------------
(* Initial file systems *)

\* Contents a Makefile may have before the first call.
ContentX == << "x", ":", "\n" >>
ContentY == << "y" >>

EmptyFS == [p \in Locs |-> IF p = << "." >> THEN Dir("rw") ELSE Absent]

\* ./Makefile is missing, an empty file, a file (read-write, read-only or
\* write-only), or a directory; ./proj is missing, an empty directory, a
\* directory holding a Makefile, or a plain file.
MakefileStates ==
    {Absent, File(<<>>, "rw"), File(ContentX, "rw"), File(ContentX, "r"),
     File(ContentX, "w"), Dir("rw")}
ProjStates ==
    {<< Absent, Absent >>, << Dir("rw"), Absent >>,
     << Dir("rw"), File(ContentY, "rw") >>, << File(ContentY, "rw"), Absent >>}

InitFS ==
    {[EmptyFS EXCEPT ![<< makefileName >>] = m,
                     ![<< "proj" >>] = pj[1],
                     ![<< "proj", makefileName >>] = pj[2]] :
        m \in MakefileStates, pj \in ProjStates}

SeqsUpTo(S, n) == UNION {[1..k -> S] : k \in 0..n}

----------------------------------------------------------------------------
(* Spec: sequences of calls on every initial file system *)

CallPaths ==
    { << "." >>,                              \* .
      << "" >>,                               \* the empty path
      << "proj" >>,                           \* proj
      << "proj", "", ".", makefileName >>,    \* proj//./Makefile
      << "proj", "..", makefileName >>,       \* proj/../Makefile
      << "", "" >> }                          \* /
CallNames == { << "t" >>, << "a", " ", "b" >> }
CallContents == { << "@", " ", "r" >> }
CallDeps == { << << "a" >> >>, << << "a" >>, << "b", " ", "c" >> >> }

\* No history is kept.
NoHistory == [on |-> FALSE, base |-> EmptyFS, calls |-> <<>>]

\* Nothing is in progress and no handle is open.
Quiet == gen = IdleGen /\ add = IdleAdd /\ handles = 0

Init ==
    /\ fs \in InitFS
    /\ pre = fs
    /\ last = NoCall
    /\ calls = 0
    /\ templateProcessorProvider \in Providers
    /\ hist = NoHistory
    /\ Quiet

Generate ==
    /\ calls < MaxCalls
    /\ \E path \in CallPaths, overwrite \in BOOLEAN :
           GenerateMakefile(path, overwrite)

AddTarget ==
    /\ calls < MaxCalls
    /\ \E path \in CallPaths, n \in CallNames : AddTargetToMakefile(path, n)

AddTargetWithContent ==
    /\ calls < MaxCalls
    /\ \E path \in CallPaths, n \in CallNames, c \in CallContents :
           AddTargetWithContentToMakefile(path, n, c)

AddTargetWithDependencies ==
    /\ calls < MaxCalls
    /\ \E path \in CallPaths, n \in CallNames, d \in CallDeps :
           AddTargetWithDependenciesToMakefile(path, n, d)

AddTargetWithContentAndDependencies ==
    /\ calls < MaxCalls
    /\ \E path \in CallPaths, n \in CallNames, c \in CallContents, d \in CallDeps :
           AddTargetWithContentAndDependenciesToMakefile(path, n, c, d)

Next ==
    \/ Generate
    \/ AddTarget
    \/ AddTargetWithContent
    \/ AddTargetWithDependencies
    \/ AddTargetWithContentAndDependencies

Spec == Init /\ [][Next]_vars

----------------------------------------------------------------------------
(* SpecRender: one add-target call on ./Makefile, for every target name,   *)
(* content and dependency list within the bounds                           *)

NameChars == {"t", " ", "\t", "+"}
ContentChars == {"@", "\"", "<"}
DepNames == { << "a" >>, << "b", " ", "c" >>, << "d", "&" >> }

RenderNames == SeqsUpTo(NameChars, MaxNameLen)
RenderContents == SeqsUpTo(ContentChars, MaxContentLen)
RenderDeps == SeqsUpTo(DepNames, MaxDeps)

InitRender ==
    /\ fs = [EmptyFS EXCEPT ![<< makefileName >>] = File(ContentX, "rw")]
    /\ pre = fs
    /\ last = NoCall
    /\ calls = 0
    /\ templateProcessorProvider = "htmlTemplateProcessor"
    /\ hist = NoHistory
    /\ Quiet

RenderAddTarget ==
    /\ calls = 0
    /\ \E n \in RenderNames : AddTargetToMakefile(<< "." >>, n)

RenderAddTargetWithContent ==
    /\ calls = 0
    /\ \E n \in RenderNames, c \in RenderContents :
           AddTargetWithContentToMakefile(<< "." >>, n, c)

RenderAddTargetWithDependencies ==
    /\ calls = 0
    /\ \E n \in RenderNames, d \in RenderDeps :
           AddTargetWithDependenciesToMakefile(<< "." >>, n, d)

RenderAddTargetWithContentAndDependencies ==
    /\ calls = 0
    /\ \E n \in RenderNames, c \in RenderContents, d \in RenderDeps :
           AddTargetWithContentAndDependenciesToMakefile(<< "." >>, n, c, d)

NextRender ==
    \/ RenderAddTarget
    \/ RenderAddTargetWithContent
    \/ RenderAddTargetWithDependencies
    \/ RenderAddTargetWithContentAndDependencies

SpecRender == InitRender /\ [][NextRender]_vars

----------------------------------------------------------------------------
(* SpecPath: one call on every initial file system, for every path of at   *)
(* most MaxPathLen components                                              *)

PathComponents == {"", ".", "..", "proj", makefileName}
AllPaths == SeqsUpTo(PathComponents, MaxPathLen) \ { <<>> }

PathGenerate ==
    /\ calls = 0
    /\ \E path \in AllPaths, overwrite \in BOOLEAN :
           GenerateMakefile(path, overwrite)

PathAddTarget ==
    /\ calls = 0
    /\ \E path \in AllPaths : AddTargetToMakefile(path, << "t" >>)

NextPath == PathGenerate \/ PathAddTarget

SpecPath == Init /\ [][NextPath]_vars

----------------------------------------------------------------------------
(* SpecCLI: runs of the command-line program *)

CLIPaths == { << "." >>, << "proj" >> }
CLIContents == { <<>> } \cup CallContents
CLIDeps == { <<>>, << << "a" >> >>, << << "a" >>, << "b" >> >> }

RunGenerate ==
    /\ calls < MaxCalls
    /\ \E path \in CLIPaths, overwrite \in BOOLEAN :
           main([NoArgv EXCEPT !.cmd = "generate", !.p = path, !.o = overwrite])

RunAddTarget ==
    /\ calls < MaxCalls
    /\ \E path \in CLIPaths, n \in CallNames, c \in CLIContents, d \in CLIDeps :
           main([NoArgv EXCEPT !.cmd = "addtarget", !.p = path, !.t = n,
                               !.c = c, !.d = d])

NextCLI == RunGenerate \/ RunAddTarget

\* The program as built: the html/template processor.
InitCLI ==
    /\ fs \in InitFS
    /\ pre = fs
    /\ last = NoCall
    /\ calls = 0
    /\ templateProcessorProvider = "htmlTemplateProcessor"
    /\ hist = NoHistory
    /\ Quiet

SpecCLI == InitCLI /\ [][NextCLI]_vars

----------------------------------------------------------------------------
(* SpecSteps: one GenerateMakefile call and up to MaxRacers add-target calls
   running at the same time, each advancing one system call at a time: the
   open, the fstat, the reads and the close of os.ReadFile, the open, the
   write and the close of os.WriteFile, and the write of each template node
   by Execute, are steps of their own.  The package takes no
   lock.  pre stays the initial file system. *)

\* The texts of a sequence, one after the other.
RECURSIVE Concat(_)
Concat(texts) == IF texts = <<>> THEN <<>> ELSE Head(texts) \o Concat(Tail(texts))

\* A call returns: its record becomes `last`, and joins hist when it
\* succeeded.
Finished(done) ==
    /\ last' = done
    /\ calls' = calls + 1
    /\ hist' = IF hist.on /\ done.err = NoError
               THEN [hist EXCEPT !.calls = Append(@, done)]
               ELSE hist

\* GenerateMakefile is called.
GenBegin(path, overwrite) ==
    /\ gen.pc = "idle"
    /\ gen' = [IdleGen EXCEPT !.pc = "stat", !.path = path, !.overwrite = overwrite]
    /\ UNCHANGED <<fs, pre, last, calls, templateProcessorProvider, hist, add, handles>>

\* makeFilePath := mkFilePath(path)
GenStat ==
    /\ gen.pc = "stat"
    /\ gen' = [gen EXCEPT !.pc = IF gen.overwrite THEN "open" ELSE "read",
                          !.mk = mkFilePath(fs, gen.path),
                          !.io = Append(@, "Stat")]
    /\ UNCHANGED <<fs, pre, last, calls, templateProcessorProvider, hist, add, handles>>

\* existingContent, err = fsProvider.ReadFile(makeFilePath), first system
\* call: os.ReadFile opens the file for reading.  A missing file, a path
\* below a plain file, and a file the caller may not read fail here, and
\* GenerateMakefile tests the error: not-found goes on with empty content.
GenReadOpen ==
    /\ gen.pc = "read"
    /\ LET node == NodeAt(fs, gen.mk)
           e == IF node.kind = "absent" THEN lookupErr(fs, gen.mk)
                ELSE IF node.kind = "file" /\ node.mode = "w" THEN "EACCES"
                ELSE "nil"
       IN  /\ gen' = IF e = "nil" THEN [gen EXCEPT !.pc = "readfstat"]
                     ELSE IF IsNotExist(e)
                     THEN [gen EXCEPT !.pc = "open", !.io = Append(@, "ReadFile")]
                     ELSE [gen EXCEPT !.pc = "return", !.io = Append(@, "ReadFile"),
                                      !.err = Wrapf(e, "reading Makefile at", gen.mk)]
           /\ handles' = IF e = "nil" THEN handles + 1 ELSE handles
    /\ UNCHANGED <<fs, pre, last, calls, templateProcessorProvider, hist, add>>

\* os.ReadFile, second system call: the size of the file is asked for, to
\* size the buffer (at least 512 bytes).
GenReadFstat ==
    /\ gen.pc = "readfstat"
    /\ gen' = [gen EXCEPT !.pc = "readbytes"]
    /\ UNCHANGED <<fs, pre, last, calls, templateProcessorProvider, hist, add, handles>>

\* os.ReadFile, the reads: each read returns what the file holds from the
\* handle's offset on (the buffer is larger than the files of this model),
\* and the loop ends at the read that returns nothing.  Reading a directory
\* fails.
GenReadBytes ==
    /\ gen.pc = "readbytes"
    /\ LET node == NodeAt(fs, gen.mk)
           off == Len(gen.existingContent)
       IN  gen' = IF node.kind = "dir"
                  THEN [gen EXCEPT !.pc = "readclose",
                                   !.err = Wrapf("EISDIR", "reading Makefile at", gen.mk)]
                  ELSE IF Len(node.data) > off
                  THEN [gen EXCEPT !.existingContent =
                                       @ \o SubSeq(node.data, off + 1, Len(node.data))]
                  ELSE [gen EXCEPT !.pc = "readclose"]
    /\ UNCHANGED <<fs, pre, last, calls, templateProcessorProvider, hist, add, handles>>

\* os.ReadFile, last system call: the deferred close; ReadFile returns and
\* GenerateMakefile tests its error.
GenReadClose ==
    /\ gen.pc = "readclose"
    /\ gen' = [gen EXCEPT !.pc = IF gen.err # NoError THEN "return" ELSE "open",
                          !.io = Append(@, "ReadFile")]
    /\ handles' = handles - 1
    /\ UNCHANGED <<fs, pre, last, calls, templateProcessorProvider, hist, add>>

\* fsProvider.WriteFile(makeFilePath, []byte(content), 0644), first system
\* call: os.WriteFile opens the file with O_WRONLY|O_CREATE|O_TRUNC, which
\* creates it empty or empties it.
GenWriteOpen ==
    /\ gen.pc = "open"
    /\ LET o == OpenFile(fs, gen.mk, {"O_WRONLY", "O_CREATE", "O_TRUNC"}) IN
       /\ fs' = o.fs
       /\ gen' = IF o.err # "nil"
                 THEN [gen EXCEPT !.pc = "return", !.io = Append(@, "WriteFile"),
                                  !.err = Wrapf(o.err, "writing MakeFile at", gen.mk)]
                 ELSE [gen EXCEPT !.pc = "write"]
       /\ handles' = IF o.err # "nil" THEN handles ELSE handles + 1
    /\ UNCHANGED <<pre, last, calls, templateProcessorProvider, hist, add>>

\* Variant: the content written also holds what was appended since the read.
GenWriteBytesKeepsAppends ==
    /\ gen.pc = "write"
    /\ LET kept == IF gen.overwrite THEN <<>>
                   ELSE gen.existingContent \o Concat(gen.missed)
       IN  fs' = WriteAt(fs, gen.mk, 0, generateContent(gen.overwrite, kept))
    /\ gen' = [gen EXCEPT !.pc = "close"]
    /\ UNCHANGED <<pre, last, calls, templateProcessorProvider, hist, add, handles>>

\* os.WriteFile, second system call: the content, built from the
\* existingContent read before, is written at offset 0 of the opened file.
GenWriteBytes ==
    /\ gen.pc = "write"
    /\ fs' = WriteAt(fs, gen.mk, 0,
                     generateContent(gen.overwrite, gen.existingContent))
    /\ gen' = [gen EXCEPT !.pc = "close"]
    /\ UNCHANGED <<pre, last, calls, templateProcessorProvider, hist, add, handles>>

\* os.WriteFile, third system call: the file is closed.
GenWriteClose ==
    /\ gen.pc = "close"
    /\ gen' = [gen EXCEPT !.pc = "return", !.io = Append(@, "WriteFile")]
    /\ handles' = handles - 1
    /\ UNCHANGED <<fs, pre, last, calls, templateProcessorProvider, hist, add>>

\* GenerateMakefile returns.
GenReturn ==
    /\ gen.pc = "return"
    /\ gen' = [gen EXCEPT !.pc = "done"]
    /\ Finished([NoCall EXCEPT !.op = "GenerateMakefile", !.path = gen.path,
                               !.overwrite = gen.overwrite, !.mk = gen.mk,
                               !.err = gen.err, !.io = gen.io])
    /\ UNCHANGED <<fs, pre, templateProcessorProvider, add, handles>>

\* The template and the data of the add-target call in progress.
addTemplate ==
    CASE add.op = "AddTargetToMakefile" -> addTargetTemplate
      [] add.op = "AddTargetWithContentToMakefile" -> addTargetWithContentTemplate
      [] add.op = "AddTargetWithDependenciesToMakefile" ->
            addTargetWithDependenciesTemplate
      [] OTHER -> addTargetWithContentAndDependenciesTemplate
addData ==
    [TargetName |-> add.name, TargetContent |-> add.content,
     TargetDependencies |-> JoinSpace(add.deps)]

\* One of the four add-target functions is called; the arguments are
\* validated (the dependencies only by the two variants that take them).
AddBegin(op, path, targetName, targetContent, targetDependencies) ==
    /\ add.pc = "idle"
    /\ LET a == [IdleAdd EXCEPT !.op = op, !.path = path, !.name = targetName,
                                !.content = targetContent,
                                !.deps = targetDependencies]
       IN  add' = IF containsSpace(targetName)
                  THEN [a EXCEPT !.pc = "return",
                                 !.err = NewError("target name cannot contain space")]
                  ELSE IF anyDependencyHasSpace(targetDependencies)
                  THEN [a EXCEPT !.pc = "return",
                                 !.err = NewError("target dependency name cannot contain space")]
                  ELSE [a EXCEPT !.pc = "stat"]
    /\ UNCHANGED <<fs, pre, last, calls, templateProcessorProvider, hist, gen, handles>>

\* mkFilePath(path), the argument of OpenFile
AddStat ==
    /\ add.pc = "stat"
    /\ add' = [add EXCEPT !.pc = "open", !.mk = mkFilePath(fs, add.path),
                          !.io = Append(@, "Stat")]
    /\ UNCHANGED <<fs, pre, last, calls, templateProcessorProvider, hist, gen, handles>>

\* file, err := fsProvider.OpenFile(..., os.O_APPEND|os.O_WRONLY, 0644);
\* defer file.Close() once it succeeded.
AddOpen ==
    /\ add.pc = "open"
    /\ LET o == OpenFile(fs, add.mk, appendFlags) IN
       /\ fs' = o.fs
       /\ add' = IF o.err # "nil"
                 THEN [add EXCEPT !.pc = "return", !.io = Append(@, "OpenFile"),
                                  !.err = Wrapf(o.err, "opening", add.path)]
                 ELSE [add EXCEPT !.pc = "parse", !.io = Append(@, "OpenFile")]
       /\ handles' = IF o.err # "nil" THEN handles ELSE handles + 1
    /\ UNCHANGED <<pre, last, calls, templateProcessorProvider, hist, gen>>

\* Variant: a failing Parse returns without running the deferred Close.
AddParseLeaks ==
    /\ add.pc = "parse"
    /\ LET parsed == Parse(templateProcessorProvider, addTemplate) IN
       add' = IF parsed.err # "nil"
              THEN [add EXCEPT !.pc = "return", !.io = Append(@, "Parse"),
                               !.err = Wrapf(parsed.err, "parsing template", <<>>)]
              ELSE [add EXCEPT !.pc = "execute", !.io = Append(@, "Parse")]
    /\ UNCHANGED <<fs, pre, last, calls, templateProcessorProvider, hist, gen, handles>>

\* tmplExecutor, err := templateProcessorProvider.Parse(...)
AddParse ==
    /\ add.pc = "parse"
    /\ LET parsed == Parse(templateProcessorProvider, addTemplate) IN
       add' = IF parsed.err # "nil"
              THEN [add EXCEPT !.pc = "close", !.io = Append(@, "Parse"),
                               !.err = Wrapf(parsed.err, "parsing template", <<>>)]
              ELSE [add EXCEPT !.pc = "execute", !.io = Append(@, "Parse")]
    /\ UNCHANGED <<fs, pre, last, calls, templateProcessorProvider, hist, gen, handles>>

\* tmplExecutor.Execute(file, data), one write: the template writes each of
\* its nodes, a literal text or a printed field, with a Write of its own on
\* the file, which lands at the end of the file as it is then.  The failing
\* double returns its error at once.
AddExecute ==
    /\ add.pc = "execute"
    /\ LET node == << addTemplate[add.node] >>
           ex == ExecuteInto(templateProcessorProvider, fs, add.mk, node, addData)
           piece == Execute(node, addData)
       IN  /\ fs' = ex.fs
           /\ add' = IF ex.err # "nil"
                     THEN [add EXCEPT !.pc = "close", !.io = Append(@, "Execute"),
                                      !.err = Wrapf(ex.err, "executing template", <<>>)]
                     ELSE IF add.node < Len(addTemplate)
                     THEN [add EXCEPT !.node = @ + 1]
                     ELSE [add EXCEPT !.pc = "close", !.io = Append(@, "Execute")]
           /\ gen' = IF ex.err # "nil" \/ gen.mk # add.mk THEN gen
                     ELSE IF gen.pc \in {"readclose", "open"} /\ ~gen.overwrite
                     THEN [gen EXCEPT !.missed = Append(@, piece)]
                     ELSE IF gen.pc = "write"
                     THEN [gen EXCEPT !.early = Append(@, piece)]
                     ELSE IF gen.pc \in {"close", "return", "done"}
                     THEN [gen EXCEPT !.late = Append(@, piece)]
                     ELSE gen
    /\ UNCHANGED <<pre, last, calls, templateProcessorProvider, hist, handles>>

\* The deferred file.Close() runs as the function returns.
AddClose ==
    /\ add.pc = "close"
    /\ add' = [add EXCEPT !.pc = "return", !.io = Append(@, "Close")]
    /\ handles' = handles - 1
    /\ UNCHANGED <<fs, pre, last, calls, templateProcessorProvider, hist, gen>>

\* The add-target function returns.
AddReturn ==
    /\ add.pc = "return"
    /\ add' = IdleAdd
    /\ Finished([NoCall EXCEPT !.op = add.op, !.path = add.path, !.name = add.name,
                               !.content = add.content, !.deps = add.deps,
                               !.mk = add.mk, !.err = add.err, !.io = add.io])
    /\ UNCHANGED <<fs, pre, templateProcessorProvider, gen, handles>>

\* ./Makefile in any of its states, nothing else in the working directory.
StepFS == {f \in InitFS : f[<< "proj" >>] = Absent}

InitSteps ==
    /\ fs \in StepFS
    /\ pre = fs
    /\ last = NoCall
    /\ calls = 0
    /\ templateProcessorProvider \in Providers
    /\ hist = [on |-> TRUE, base |-> fs, calls |-> <<>>]
    /\ Quiet

\* The add-target calls that have returned.
AddsReturned == calls - (IF gen.pc = "done" THEN 1 ELSE 0)

StepGenerate == \E overwrite \in BOOLEAN : GenBegin(<< "." >>, overwrite)

StepAddTarget ==
    /\ AddsReturned < MaxRacers
    /\ \E n \in CallNames :
          AddBegin("AddTargetToMakefile", << "." >>, n, <<>>, <<>>)

StepAddTargetWithContent ==
    /\ AddsReturned < MaxRacers
    /\ \E n \in CallNames, c \in CallContents :
          AddBegin("AddTargetWithContentToMakefile", << "." >>, n, c, <<>>)

StepAddTargetWithDependencies ==
    /\ AddsReturned < MaxRacers
    /\ \E n \in CallNames, d \in CallDeps :
          AddBegin("AddTargetWithDependenciesToMakefile", << "." >>, n, <<>>, d)

StepAddTargetWithContentAndDependencies ==
    /\ AddsReturned < MaxRacers
    /\ \E n \in CallNames, c \in CallContents, d \in CallDeps :
          AddBegin("AddTargetWithContentAndDependenciesToMakefile", << "." >>, n, c, d)

NextSteps ==
    \/ StepGenerate
    \/ GenStat
    \/ GenReadOpen
    \/ GenReadFstat
    \/ GenReadBytes
    \/ GenReadClose
    \/ GenWriteOpen
    \/ GenWriteBytes
    \/ GenWriteClose
    \/ GenReturn
    \/ StepAddTarget
    \/ StepAddTargetWithContent
    \/ StepAddTargetWithDependencies
    \/ StepAddTargetWithContentAndDependencies
    \/ AddStat
    \/ AddOpen
    \/ AddParse
    \/ AddExecute
    \/ AddClose
    \/ AddReturn

SpecSteps == InitSteps /\ [][NextSteps]_vars

----------------------------------------------------------------------------
(* SpecHandles: sequences of add-target calls, one after the other, each
   advancing one system call at a time *)

NextAddTarget ==
    /\ calls < MaxCalls
    /\ \E n \in CallNames :
          AddBegin("AddTargetToMakefile", << "." >>, n, <<>>, <<>>)

NextAddTargetWithContent ==
    /\ calls < MaxCalls
    /\ \E n \in CallNames, c \in CallContents :
          AddBegin("AddTargetWithContentToMakefile", << "." >>, n, c, <<>>)

NextAddTargetWithDependencies ==
    /\ calls < MaxCalls
    /\ \E n \in CallNames, d \in CallDeps :
          AddBegin("AddTargetWithDependenciesToMakefile", << "." >>, n, <<>>, d)

NextAddTargetWithContentAndDependencies ==
    /\ calls < MaxCalls
    /\ \E n \in CallNames, c \in CallContents, d \in CallDeps :
          AddBegin("AddTargetWithContentAndDependenciesToMakefile", << "." >>, n, c, d)

NextHandles ==
    \/ NextAddTarget
    \/ NextAddTargetWithContent
    \/ NextAddTargetWithDependencies
    \/ NextAddTargetWithContentAndDependencies
    \/ AddStat
    \/ AddOpen
    \/ AddParse
    \/ AddExecute
    \/ AddClose
    \/ AddReturn

SpecHandles == InitSteps /\ [][NextHandles]_vars

----------------------------------------------------------------------------
(* SpecRegen: sequences of GenerateMakefile calls, with the successful calls
   kept in hist *)

RegenPaths == { << "." >>, << "proj" >> }

InitRegen ==
    /\ fs \in InitFS
    /\ pre = fs
    /\ last = NoCall
    /\ calls = 0
    /\ templateProcessorProvider = "htmlTemplateProcessor"
    /\ hist = [on |-> TRUE, base |-> fs, calls |-> <<>>]
    /\ Quiet

Regenerate ==
    /\ calls < MaxCalls
    /\ \E path \in RegenPaths : GenerateMakefile(path, TRUE)

RegenerateKeeping ==
    /\ calls < MaxCalls
    /\ \E path \in RegenPaths : GenerateMakefile(path, FALSE)

NextRegen == Regenerate \/ RegenerateKeeping

SpecRegen == InitRegen /\ [][NextRegen]_vars

----------------------------------------------------------------------------
(* SpecAppend: sequences of add-target calls on existing Makefiles, with the
   successful calls kept in hist *)

AppendPaths == { << "." >>, << "proj" >> }
AppendNames == { << "t" >>, << "u" >> }
AppendDeps == { << << "a" >> >> }

\* ./Makefile exists and is writable, empty or with content; ./proj is any of
\* ProjStates.
AppendFS == {f \in InitFS : f[<< makefileName >>] \in {File(<<>>, "rw"), File(ContentX, "rw")}}

InitAppend ==
    /\ fs \in AppendFS
    /\ pre = fs
    /\ last = NoCall
    /\ calls = 0
    /\ templateProcessorProvider \in Providers
    /\ hist = [on |-> TRUE, base |-> fs, calls |-> <<>>]
    /\ Quiet

AppendTarget ==
    /\ calls < MaxCalls
    /\ \E path \in AppendPaths, n \in AppendNames : AddTargetToMakefile(path, n)

AppendTargetWithContent ==
    /\ calls < MaxCalls
    /\ \E path \in AppendPaths, n \in AppendNames, c \in CallContents :
           AddTargetWithContentToMakefile(path, n, c)

AppendTargetWithDependencies ==
    /\ calls < MaxCalls
    /\ \E path \in AppendPaths, n \in AppendNames, d \in AppendDeps :
           AddTargetWithDependenciesToMakefile(path, n, d)

AppendTargetWithContentAndDependencies ==
    /\ calls < MaxCalls
    /\ \E path \in AppendPaths, n \in AppendNames, c \in CallContents, d \in AppendDeps :
           AddTargetWithContentAndDependenciesToMakefile(path, n, c, d)

NextAppend ==
    \/ AppendTarget
    \/ AppendTargetWithContent
    \/ AppendTargetWithDependencies
    \/ AppendTargetWithContentAndDependencies

SpecAppend == InitAppend /\ [][NextAppend]_vars


----------------------------------------------------------------------------
(* Claims *)

AddTargetOps ==
    {"AddTargetToMakefile", "AddTargetWithContentToMakefile",
     "AddTargetWithDependenciesToMakefile",
     "AddTargetWithContentAndDependenciesToMakefile"}

Succeeded == last.err = NoError

\* The resolved Makefile before and after the last call.
Before == NodeAt(pre, last.mk)
After == NodeAt(fs, last.mk)

GeneratedWith(overwrite) ==
    last.op = "GenerateMakefile" /\ last.overwrite = overwrite

\* C1: after a successful GenerateMakefile(path, overwrite=true) the resolved
\* Makefile is a file whose content is exactly the boilerplate, whatever was
\* there before (nothing, an empty file, or any content).
C1_OverwriteLeavesBoilerplate ==
    (GeneratedWith(TRUE) /\ Succeeded) =>
        (After.kind = "file" /\ After.data = generateTemplate)

\* C1 witness: a successful overwrite of a Makefile that had content.
C1_Witness ==
    /\ GeneratedWith(TRUE) /\ Succeeded
    /\ Before.kind = "file" /\ Before.data # <<>>
    /\ After.data = generateTemplate

\* C2: after a successful GenerateMakefile(path, overwrite=false) on an
\* existing Makefile with content C, the content is the boilerplate followed
\* immediately by C.
C2_KeepPrependsBoilerplate ==
    (GeneratedWith(FALSE) /\ Succeeded /\ Before.kind = "file") =>
        After.data = generateTemplate \o Before.data

\* C2 witness: a successful non-overwriting generate on a Makefile whose
\* content is non-empty; the old content follows the boilerplate directly.
C2_Witness ==
    /\ GeneratedWith(FALSE) /\ Succeeded
    /\ Before.kind = "file" /\ Before.data # <<>>
    /\ After.data = generateTemplate \o Before.data
    /\ After.data # Before.data \o generateTemplate

\* The resolved Makefile was missing and reading it fails with not-found.
MissingBefore == Before.kind = "absent" /\ lookupErr(pre, last.mk) = "ENOENT"

\* C3 as stated: GenerateMakefile(path, overwrite=false) on a missing
\* Makefile returns no error and creates the file with the boilerplate.
C3_AsStated ==
    (GeneratedWith(FALSE) /\ MissingBefore) =>
        (Succeeded /\ After.kind = "file" /\ After.data = generateTemplate)

\* C3 amended: on a missing Makefile the not-found read is not reported and
\* the call goes on to the write with empty prior content; it returns no
\* error and leaves exactly the boilerplate when the write succeeds, which it
\* does whenever the directory of the file exists and is writable; the only
\* error it can return is the write's.
C3_MissingFileIsEmptyContent ==
    (GeneratedWith(FALSE) /\ MissingBefore) =>
        /\ last.io = << "Stat", "ReadFile", "WriteFile" >>
        /\ last.err.msg \in {"", "writing MakeFile at"}
        /\ Succeeded => (After.kind = "file" /\ After.data = generateTemplate)
        /\ NodeAt(pre, Parent(last.mk)) = Dir("rw") => Succeeded

\* C3 witness: the Makefile was missing and the call created it.
C3_Witness ==
    /\ GeneratedWith(FALSE) /\ MissingBefore /\ Succeeded
    /\ After.kind = "file" /\ After.data = generateTemplate

\* The text the last call added at the end of the resolved Makefile.
Appended == SubSeq(After.data, Len(Before.data) + 1, Len(After.data))

\* The lines of a text: the runs between its newlines.
RECURSIVE LinesOf(_, _)
LinesOf(text, line) ==
    IF text = <<>> THEN << line >>
    ELSE IF Head(text) = "\n" THEN << line >> \o LinesOf(Tail(text), <<>>)
    ELSE LinesOf(Tail(text), Append(line, Head(text)))

EndsWith(text, suffix) ==
    /\ Len(text) >= Len(suffix)
    /\ SubSeq(text, Len(text) - Len(suffix) + 1, Len(text)) = suffix

\* "\n.PHONY: n\n## n: explain what n does\n" with n exactly as given.
VerbatimHeader(n) ==
    << "\n", ".", "P", "H", "O", "N", "Y", ":", " " >> \o n
        \o << "\n", "#", "#", " " >> \o n
        \o << ":", " ", "e", "x", "p", "l", "a", "i", "n", " ", "w", "h", "a", "t", " " >>
        \o n \o << " ", "d", "o", "e", "s", "\n" >>

\* C4 as stated: after a successful AddTargetToMakefile(path, n) on an
\* existing Makefile with content X, the content is X followed by
\* "\n.PHONY: n\n## n: explain what n does\nn:\n".
C4_AsStated ==
    (last.op = "AddTargetToMakefile" /\ Succeeded) =>
        After.data = Before.data \o VerbatimHeader(last.name)
                         \o last.name \o << ":", "\n" >>

\* C5 as stated: the content given to an add-target call is written as it
\* is: the appended block ends with the line made of a tab and the content.
C5_AsStated ==
    (/\ last.op \in {"AddTargetWithContentToMakefile",
                     "AddTargetWithContentAndDependenciesToMakefile"}
     /\ Succeeded) =>
        EndsWith(After.data, << "\n", "\t" >> \o last.content \o << "\n" >>)

\* C6 as stated: with a non-empty dependency list the declaration line of
\* the appended block (its fourth line, after the blank line, the .PHONY
\* line and the ## line) is the name, ": ", and the dependencies in the
\* order given, separated by single spaces.
C6_AsStated ==
    (/\ last.op \in {"AddTargetWithDependenciesToMakefile",
                     "AddTargetWithContentAndDependenciesToMakefile"}
     /\ Succeeded
     /\ last.deps # <<>>) =>
        LinesOf(Appended, <<>>)[4] =
            last.name \o << ":", " " >> \o JoinSpace(last.deps)

HasSpaceChar(s) == \E i \in DOMAIN s : s[i] = " "
HasWhitespace(s) == \E i \in DOMAIN s : s[i] \in {" ", "\t", "\n"}
SomeDependency(P(_)) == \E i \in DOMAIN last.deps : P(last.deps[i])

NothingTouched == last.io = <<>> /\ fs = pre

\* C7: an add-target call whose name contains a space fails with "target
\* name cannot contain space"; one whose name is valid but one of whose
\* dependencies contains a space fails with "target dependency name cannot
\* contain space"; either way no file system call was made and the file
\* system is as it was.
C7_ValidationBeforeIO ==
    last.op \in AddTargetOps =>
        /\ HasSpaceChar(last.name) =>
               /\ last.err = NewError("target name cannot contain space")
               /\ NothingTouched
        /\ (~HasSpaceChar(last.name) /\ SomeDependency(HasSpaceChar)) =>
               /\ last.err = NewError("target dependency name cannot contain space")
               /\ NothingTouched

\* C7 witness: a call with a valid name and a dependency holding a space was
\* rejected with the dependency message, an existing Makefile untouched.
C7_Witness ==
    /\ last.op = "AddTargetWithContentAndDependenciesToMakefile"
    /\ ~HasSpaceChar(last.name) /\ SomeDependency(HasSpaceChar)
    /\ last.err = NewError("target dependency name cannot contain space")
    /\ NothingTouched
    /\ fs[<< makefileName >>].kind = "file"

\* C8 as stated: a call that got past validation and wrote to the file had
\* no whitespace (space, tab, newline) in its name or in any dependency.
C8_AsStated ==
    (last.op \in AddTargetOps /\ Succeeded) =>
        (~HasWhitespace(last.name) /\ ~SomeDependency(HasWhitespace))

\* C9: an add-target call that passes validation and whose resolved Makefile
\* does not exist fails with a wrapped open error, and creates nothing: the
\* path still does not exist and the file system is as it was.
C9_MissingFileNotCreated ==
    (last.op \in AddTargetOps /\ last.io # <<>> /\ Before.kind = "absent") =>
        /\ last.err.msg = "opening" /\ last.err.cause # "nil"
        /\ After.kind = "absent"
        /\ fs = pre

\* C9 witness: an add-target call on a missing Makefile in a writable
\* directory failed with not-found and left the path missing.
C9_Witness ==
    /\ last.op \in AddTargetOps /\ last.io # <<>>
    /\ Before.kind = "absent" /\ NodeAt(pre, Parent(last.mk)) = Dir("rw")
    /\ last.err.msg = "opening" /\ last.err.cause = "ENOENT"
    /\ After.kind = "absent"

\* A path in normal form: "." or "/", or a path without empty and "."
\* components whose ".." components, if any, all lead a relative path.
IsNormal(p) ==
    \/ p = << "." >>
    \/ p = << "", "" >>
    \/ /\ Len(p) >= 2 /\ p[1] = ""
       /\ \A i \in 2..Len(p) : p[i] \notin {"", ".", ".."}
    \/ /\ Len(p) >= 1 /\ p[1] # ""
       /\ \A i \in 1..Len(p) :
              /\ p[i] \notin {"", "."}
              /\ p[i] = ".." => \A j \in 1..i : p[j] = ".."

\* C10: the path a call resolves is the normalized path with Makefile
\* joined to it when the normalized path is an existing directory, and the
\* normalized path itself otherwise (missing, not a directory); resolution
\* reports no error of its own, and a path that does not exist yet does not
\* make generate fail when its directory is writable.
C10_Resolution ==
    (last.op # "none" /\ last.io # <<>>) =>
        /\ last.mk = IF NodeAt(pre, Clean(last.path)).kind = "dir"
                     THEN Clean(Append(Clean(last.path), "Makefile"))
                     ELSE Clean(last.path)
        /\ IsNormal(last.mk)
        /\ last.err.msg \in {"", "reading Makefile at", "writing MakeFile at", "opening",
                             "parsing template", "executing template"}
        /\ (/\ last.op = "GenerateMakefile"
            /\ NodeAt(pre, Clean(last.path)).kind = "absent"
            /\ NodeAt(pre, Parent(Clean(last.path))) = Dir("rw")) => Succeeded

\* C10 witness: a path that is not in normal form and names a directory was
\* resolved to the Makefile inside that directory, and the call succeeded.
C10_WitnessDirectory ==
    /\ last.op = "GenerateMakefile" /\ Succeeded
    /\ last.path # Clean(last.path)
    /\ Clean(last.path) = << "proj" >>
    /\ NodeAt(pre, << "proj" >>).kind = "dir"
    /\ last.mk = << "proj", "Makefile" >>

----------------------------------------------------------------------------
(* C11 *)

\* The block an add-target call renders from its arguments.
BlockOf(c) ==
    CASE c.op = "AddTargetToMakefile" ->
            Execute(addTargetTemplate, [TargetName |-> c.name])
      [] c.op = "AddTargetWithContentToMakefile" ->
            Execute(addTargetWithContentTemplate,
                    [TargetName |-> c.name, TargetContent |-> c.content])
      [] c.op = "AddTargetWithDependenciesToMakefile" ->
            Execute(addTargetWithDependenciesTemplate,
                    [TargetName |-> c.name, TargetDependencies |-> JoinSpace(c.deps)])
      [] c.op = "AddTargetWithContentAndDependenciesToMakefile" ->
            Execute(addTargetWithContentAndDependenciesTemplate,
                    [TargetName |-> c.name, TargetDependencies |-> JoinSpace(c.deps),
                     TargetContent |-> c.content])
      [] OTHER -> <<>>

\* The blocks of the calls of a history that resolved to file p, in call order.
RECURSIVE BlocksFor(_, _)
BlocksFor(p, cs) ==
    IF cs = <<>> THEN <<>>
    ELSE (IF Head(cs).mk = p THEN BlockOf(Head(cs)) ELSE <<>>) \o BlocksFor(p, Tail(cs))

\* C11: after any sequence of successful add-target calls, every file is as
\* it was at the start with the rendered blocks of the calls that resolved to
\* it added at its end in call order, one block per call; nothing else of
\* the file system changes, and a repeated name gives a repeated stanza.
C11_BlocksInCallOrder ==
    (hist.on /\ \A i \in 1..Len(hist.calls) : hist.calls[i].op \in AddTargetOps) =>
        \A p \in Locs :
            fs[p] = [hist.base[p] EXCEPT !.data = @ \o BlocksFor(p, hist.calls)]

\* C11 witness: two successful AddTargetToMakefile calls with the same name t
\* on ./Makefile holding x, which now holds x and two .PHONY: t stanzas.
C11_Witness ==
    /\ hist.on /\ Len(hist.calls) = 2
    /\ \A i \in 1..2 : /\ hist.calls[i].op = "AddTargetToMakefile"
                        /\ hist.calls[i].name = << "t" >>
                        /\ hist.calls[i].mk = << makefileName >>
    /\ hist.base[<< makefileName >>].data = ContentX
    /\ LET stanza ==
             << "\n", ".", "P", "H", "O", "N", "Y", ":", " ", "t", "\n", "#", "#",
                " ", "t", ":", " ", "e", "x", "p", "l", "a", "i", "n", " ", "w",
                "h", "a", "t", " ", "t", " ", "d", "o", "e", "s", "\n", "t", ":",
                "\n" >>
       IN  fs[<< makefileName >>].data = ContentX \o stanza \o stanza

----------------------------------------------------------------------------
(* C12 *)

\* C12 as stated: the addtarget subcommand run with -t t and one or more -d
\* options, t and the dependencies free of spaces, on a working directory
\* whose Makefile is a writable file, succeeds and appends a block whose
\* declaration line is "t: d1 ... dk".
C12_AsStated ==
    (/\ last.argv.cmd = "addtarget" /\ last.argv.d # <<>>
     /\ last.argv.p = << "." >>
     /\ ~HasSpaceChar(last.argv.t)
     /\ \A i \in DOMAIN last.argv.d : ~HasSpaceChar(last.argv.d[i])
     /\ pre[<< makefileName >>].kind = "file"
     /\ pre[<< makefileName >>].mode = "rw") =>
        /\ Succeeded
        /\ LET appended == SubSeq(fs[<< makefileName >>].data,
                                  Len(pre[<< makefileName >>].data) + 1,
                                  Len(fs[<< makefileName >>].data))
           IN  /\ Len(LinesOf(appended, <<>>)) >= 4
               /\ LinesOf(appended, <<>>)[4] =
                      last.argv.t \o << ":", " " >> \o JoinSpace(last.argv.d)

----------------------------------------------------------------------------
(* C13 *)

\* Why reading the resolved Makefile fails for a reason other than
\* not-found, "nil" when it does not: it is a directory, it is a file the
\* caller may not read, or a component of its path is a file.
ReadFailure ==
    IF Before.kind = "dir" THEN "EISDIR"
    ELSE IF Before.kind = "file" /\ Before.mode = "w" THEN "EACCES"
    ELSE IF /\ Before.kind = "absent"
            /\ \E i \in 1..(Len(last.mk) - 1) :
                   NodeAt(pre, SubSeq(last.mk, 1, i)).kind = "file"
         THEN "ENOTDIR"
    ELSE "nil"

\* C13: a GenerateMakefile(path, false) whose read of the resolved Makefile
\* fails for a reason other than not-found returns "reading Makefile at
\* <resolved path>: <cause>", makes no write, and leaves the file system
\* as it was.
C13_ReadFailureNoWrite ==
    (GeneratedWith(FALSE) /\ ReadFailure # "nil") =>
        /\ last.err = [msg |-> "reading Makefile at", path |-> last.mk,
                       cause |-> ReadFailure]
        /\ \A i \in DOMAIN last.io : last.io[i] # "WriteFile"
        /\ fs = pre

\* C13 witness: generate without overwrite on a Makefile the caller may
\* write but not read failed with the reading error, the file untouched.
C13_Witness ==
    /\ GeneratedWith(FALSE)
    /\ Before = File(ContentX, "w")
    /\ last.err = [msg |-> "reading Makefile at", path |-> << makefileName >>,
                   cause |-> "EACCES"]
    /\ After = Before

----------------------------------------------------------------------------
(* C14 *)

\* The last call is an add-target call that got past validation and opened
\* the resolved Makefile: the arguments hold no space and the Makefile was a
\* file the caller may write.
OpenedForAppend ==
    /\ last.op \in AddTargetOps
    /\ ~HasSpaceChar(last.name)
    /\ ~SomeDependency(HasSpaceChar)
    /\ Before.kind = "file" /\ Before.mode \in {"rw", "w"}

\* C14: when the processor's Parse fails after the file was opened, the call
\* returns "parsing template: <cause>" and the file system, the Makefile's
\* content included, is as before the call; when the executor's Execute
\* fails, the call returns "executing template: <cause>".
C14_TemplateFailures ==
    /\ (OpenedForAppend /\ templateProcessorProvider = "mockParseError") =>
           /\ last.err = [msg |-> "parsing template", path |-> <<>>,
                          cause |-> "parse error"]
           /\ After.data = Before.data
           /\ fs = pre
    /\ (OpenedForAppend /\ templateProcessorProvider = "mockExecuteError") =>
           last.err = [msg |-> "executing template", path |-> <<>>,
                       cause |-> "execute error"]

\* C14 witness: AddTargetToMakefile with a valid name on an existing Makefile
\* failed in Parse; the Makefile still holds what it held.
C14_Witness ==
    /\ last.op = "AddTargetToMakefile" /\ OpenedForAppend
    /\ templateProcessorProvider = "mockParseError"
    /\ last.err.msg = "parsing template"
    /\ Before = File(ContentX, "rw") /\ After = Before

----------------------------------------------------------------------------
(* C15 *)

\* C15 as stated: the path named by every read, write or open error of a
\* call is the resolved Makefile path, on which the failing operation was
\* attempted.
C15_AsStated ==
    last.err.msg \in {"reading Makefile at", "writing MakeFile at", "opening"} =>
        last.err.path = last.mk

----------------------------------------------------------------------------
(* C16 *)

\* No character of s is one html/template replaces.
Plain(s) == \A i \in DOMAIN s : s[i] \notin {"\"", "&", "'", "+", "<", ">"}

\* C16 as stated, for inputs the escaper leaves alone: the block a
\* successful add-target call appends is a blank line, the .PHONY line, the
\* ## line, the declaration line, which is "name:" when the dependency list
\* is absent or empty and "name: deps" otherwise, and then the line of a tab
\* and the content when content is present, and no command line otherwise.
C16_AsStated ==
    (/\ last.op \in AddTargetOps /\ Succeeded
     /\ Plain(last.name) /\ Plain(last.content)
     /\ \A i \in DOMAIN last.deps : Plain(last.deps[i])) =>
        LET lines == LinesOf(Appended, <<>>) IN
        /\ Len(lines) = IF last.content # <<>> THEN 6 ELSE 5
        /\ lines[4] = IF last.deps # <<>>
                      THEN last.name \o << ":", " " >> \o JoinSpace(last.deps)
                      ELSE last.name \o << ":" >>
        /\ last.content # <<>> => lines[5] = << "\t" >> \o last.content

\* The part of C16 about the command-line program: a run of addtarget that
\* reaches Execute calls AddTargetWithContentToMakefile exactly when the
\* value of -c is not empty, and AddTargetToMakefile otherwise.
C16_CLIVariantByContent ==
    (last.argv.cmd = "addtarget" /\ last.op # "flags.Parse") =>
        /\ last.op = IF last.argv.c # <<>> THEN "AddTargetWithContentToMakefile"
                     ELSE "AddTargetToMakefile"
        /\ last.name = last.argv.t /\ last.path = last.argv.p
        /\ last.content = last.argv.c

----------------------------------------------------------------------------
(* C17 *)

\* The add-target call in progress holds an open handle: OpenFile succeeded
\* and the deferred Close has not run.
HoldsHandle == add.pc \in {"parse", "execute", "close"}

\* The number of times x occurs in a sequence.
RECURSIVE Count(_, _)
Count(x, seq) ==
    IF seq = <<>> THEN 0 ELSE (IF Head(seq) = x THEN 1 ELSE 0) + Count(x, Tail(seq))

\* The GenerateMakefile call in progress is inside os.ReadFile or
\* os.WriteFile, between its open and its close.
GenHoldsHandle == gen.pc \in {"readfstat", "readbytes", "readclose", "write", "close"}

\* C17: an add-target call holds an open handle exactly between its
\* successful OpenFile and its deferred Close, these being all the handles
\* open beside the one of a running ReadFile or WriteFile; a call about to return, after
\* a Parse failure, an Execute failure or success, has closed the handle it
\* opened exactly once, and one whose validation or OpenFile failed has
\* opened and closed none; between add-target calls no handle is open.
C17_HandleClosedOnEveryExit ==
    /\ handles - (IF GenHoldsHandle THEN 1 ELSE 0) = IF HoldsHandle THEN 1 ELSE 0
    /\ add.pc = "return" =>
          /\ Count("Close", add.io) =
                IF add.err.msg \in {"", "parsing template", "executing template"}
                THEN 1 ELSE 0
          /\ add.err.msg \in {"target name cannot contain space",
                              "target dependency name cannot contain space",
                              "opening"} =>
                Count("Parse", add.io) = 0
    /\ last.op \in AddTargetOps =>
          Count("Close", last.io) = Count("Parse", last.io)
    /\ (add.pc = "idle" /\ ~GenHoldsHandle) => handles = 0

\* C17 witness: an add-target call whose Execute failed has returned, its
\* handle opened and closed once, and no handle is open.
C17_Witness ==
    /\ last.op \in AddTargetOps
    /\ last.err.msg = "executing template"
    /\ Count("OpenFile", last.io) = 1 /\ Count("Close", last.io) = 1
    /\ add.pc = "idle" /\ handles = 0

----------------------------------------------------------------------------
(* C18 *)

\* sub occurs in text.
Occurs(sub, text) ==
    \E i \in 1..(Len(text) - Len(sub) + 1) : SubSeq(text, i, i + Len(sub) - 1) = sub

\* C18: once a GenerateMakefile(path, false) has written, the file is the
\* boilerplate, the content the call had read, what the write did not cover
\* of the texts appended between its open and its write, and the texts
\* appended since the write: nothing that an add-target call appended
\* between the read and the open is part of it, though that call returns
\* success too.
C18_LostUpdate ==
    (gen.pc \in {"close", "return", "done"} /\ gen.err = NoError /\ ~gen.overwrite) =>
        LET written == generateTemplate \o gen.existingContent
            covered == Concat(gen.early)
        IN  fs[gen.mk].data =
                written \o SubSeq(covered, Len(written) + 1, Len(covered))
                        \o Concat(gen.late)

\* C18 witness: GenerateMakefile(".", false) and AddTargetToMakefile(".", "t")
\* have both returned success, the whole block having been appended between
\* the read and the open: the Makefile, which held x, holds the boilerplate
\* and x, and the block is nowhere in it.
C18_Witness ==
    /\ gen.pc = "done" /\ gen.err = NoError /\ ~gen.overwrite
    /\ add.pc = "idle"
    /\ Len(hist.calls) = 2
    /\ \E i \in 1..2 : /\ hist.calls[i].op = "AddTargetToMakefile"
                       /\ hist.calls[i].name = << "t" >>
                       /\ hist.calls[i].err = NoError
                       /\ Concat(gen.missed) = BlockOf(hist.calls[i])
                       /\ ~Occurs(BlockOf(hist.calls[i]), fs[<< makefileName >>].data)
    /\ \E i \in 1..2 : hist.calls[i].op = "GenerateMakefile"
    /\ hist.base[<< makefileName >>].data = ContentX
    /\ fs[<< makefileName >>].data = generateTemplate \o ContentX

----------------------------------------------------------------------------
(* C19 *)

\* The successful calls of the history that resolved to file p.
RECURSIVE CallsOn(_, _)
CallsOn(p, cs) ==
    IF cs = <<>> THEN <<>>
    ELSE (IF Head(cs).mk = p THEN << Head(cs) >> ELSE <<>>) \o CallsOn(p, Tail(cs))

\* k copies of the boilerplate.
RECURSIVE Boilerplates(_)
Boilerplates(k) == IF k = 0 THEN <<>> ELSE generateTemplate \o Boilerplates(k - 1)

\* C19: after one or more successful GenerateMakefile calls on a file, all
\* with overwrite, the file is the boilerplate; after k successful calls on
\* it, all without overwrite, it is k copies of the boilerplate followed by
\* the content C it had at the start (empty when it did not exist).
C19_RegenerateGrowsOnlyWithoutOverwrite ==
    \A p \in Locs :
        LET cs == CallsOn(p, hist.calls) IN
        (hist.on /\ cs # <<>> /\ \A i \in DOMAIN cs : cs[i].op = "GenerateMakefile") =>
            /\ (\A i \in DOMAIN cs : cs[i].overwrite) =>
                   fs[p] = File(generateTemplate, fs[p].mode)
            /\ (\A i \in DOMAIN cs : ~cs[i].overwrite) =>
                   fs[p].data = Boilerplates(Len(cs)) \o hist.base[p].data

\* C19 witness: two successful GenerateMakefile(".", false) calls on a
\* Makefile holding x left two boilerplates followed by x.
C19_Witness ==
    /\ hist.on /\ Len(hist.calls) = 2
    /\ \A i \in 1..2 : /\ hist.calls[i].op = "GenerateMakefile"
                       /\ ~hist.calls[i].overwrite
                       /\ hist.calls[i].mk = << makefileName >>
    /\ hist.base[<< makefileName >>].data = ContentX
    /\ fs[<< makefileName >>].data = generateTemplate \o generateTemplate \o ContentX

====
